---- MODULE Spec2Model ----
(***************************************************************************)
(* A model of framer/framer.py: the FramerState container (a              *)
(* MutableMapping whose attribute hooks redirect non-reserved names into   *)
(* the private dictionary _data) and the abstract Framer contract.         *)
(*                                                                         *)
(* Python objects are modelled by content:                                 *)
(*   - a name is the sequence of its characters, so that name[0] is        *)
(*     name[1] here and the empty name has no first character;             *)
(*   - a dict is the sequence of its entries in insertion order, with      *)
(*     no key twice;                                                       *)
(*   - a value is a record [kind, n, items]: an int, a dict literal, a     *)
(*     bound method of the class, or None;                                 *)
(*   - an instance is its __dict__ (a dict from field names to values).    *)
(* A call's outcome is a record holding the exception raised ("none"       *)
(* when it returns), the value returned and the instance after the call.   *)
(***************************************************************************)
EXTENDS Integers, Sequences, FiniteSets

VARIABLES
    state,      \* the FramerState instance: its __dict__
    framer,     \* the Framer instance: its __dict__
    last,       \* the most recent recorded call and its outcome
    written,    \* history: non-reserved name -> value last set and not since deleted
    dataAssigned, \* history: the field _data was assigned after construction
    data,       \* the receive buffer handed to to_frame
    frame,      \* the frame the last successful to_frame returned
    pc,         \* per caller: position inside state.count = state.count + 1
    tmp,        \* per caller: the value read by state.count
    done,       \* per caller: increments completed
    other,      \* a second FramerState instance: its __dict__
    ref,        \* per instance: the identity of the dict its _data holds (0: none)
    handedOver  \* history: one instance's _data dict was stored into the other

vars == <<state, framer, last, written, dataAssigned, data, frame, pc, tmp, done,
          other, ref, handedOver>>

(***************************************************************************)
(* Bounds of the model.                                                    *)
(***************************************************************************)
MaxInt == 1
MaxIncr == 3
MaxBuf == 4
MaxByte == 2

(***************************************************************************)
(* Names.                                                                  *)
(***************************************************************************)
DATA == <<"_", "d", "a", "t", "a">>
ATTR == <<"_", "a", "t", "t", "r">>
KEYS == <<"k", "e", "y", "s">>
NameA == <<"a">>
COUNT == <<"c", "o", "u", "n", "t">>
LENGTH == <<"l", "e", "n", "g", "t", "h">>
EmptyName == <<>>

Names == {DATA, ATTR, KEYS, NameA, EmptyName}

IsReserved(name) == Len(name) > 0 /\ name[1] = "_"

\* The callers sharing one FramerState.
Callers == {1, 2}

ReservedNames == {n \in Names : IsReserved(n)}
PublicNames == {n \in Names : ~IsReserved(n)}

\* Non-reserved names the class itself defines (inherited from
\* MutableMapping and Mapping): ordinary attribute lookup finds them on the
\* type before __getattr__ is consulted.
ClassAttrs == {KEYS, <<"g", "e", "t">>, <<"u", "p", "d", "a", "t", "e">>,
               <<"i", "t", "e", "m", "s">>, <<"v", "a", "l", "u", "e", "s">>,
               <<"p", "o", "p">>, <<"c", "l", "e", "a", "r">>}

(***************************************************************************)
(* Values.                                                                 *)
(***************************************************************************)
IntVal(i) == [kind |-> "int", n |-> i, items |-> <<>>]
DictVal(d) == [kind |-> "dict", n |-> 0, items |-> d]
MethodVal == [kind |-> "method", n |-> 0, items |-> <<>>]
NoneVal == [kind |-> "none", n |-> 0, items |-> <<>>]

Entry(k, v) == [key |-> k, val |-> v]

\* The values callers pass in: small ints and a dict literal, whose keys
\* are a reserved name and the empty name.
Values == {IntVal(i) : i \in 0..MaxInt}
          \cup {DictVal(<<Entry(ATTR, IntVal(1)), Entry(EmptyName, IntVal(1))>>)}

(***************************************************************************)
(* dict operations.                                                        *)
(***************************************************************************)
DictHas(d, k) == \E i \in 1..Len(d) : d[i].key = k
DictIndex(d, k) == CHOOSE i \in 1..Len(d) : d[i].key = k
DictGet(d, k) == d[DictIndex(d, k)].val
DictSet(d, k, v) ==
    IF DictHas(d, k)
    THEN [d EXCEPT ![DictIndex(d, k)] = Entry(k, v)]
    ELSE Append(d, Entry(k, v))
DictDel(d, k) == SelectSeq(d, LAMBDA e : e.key # k)
DictKeys(d) == [i \in 1..Len(d) |-> d[i].key]

(***************************************************************************)
(* Outcomes of a call.                                                     *)
(***************************************************************************)
Return(self, v) == [exc |-> "none", val |-> v, self |-> self]
Raise(self, e) == [exc |-> e, val |-> NoneVal, self |-> self]

(***************************************************************************)
(* Subscripting a value: v[name], v[name] = value, del v[name].  Only a    *)
(* dict supports them; an int raises TypeError.                            *)
(***************************************************************************)
IsDict(v) == v.kind = "dict"

(***************************************************************************)
(* The expression self._data as every method evaluates it.  The field is   *)
(* found in the instance __dict__; when it is not there, ordinary lookup   *)
(* falls back to __getattr__('_data'), whose first step is self._data      *)
(* again: the recursion ends in RecursionError.                            *)
(***************************************************************************)
LoadData(self) ==
    IF DictHas(self, DATA)
    THEN Return(self, DictGet(self, DATA))
    ELSE Raise(self, "RecursionError")

\* self._data[name] = value (the last statement of __setattr__ and __setitem__)
StoreData(self, name, value) ==
    LET d == LoadData(self) IN
    IF d.exc # "none" THEN Raise(self, d.exc)
    ELSE IF ~IsDict(d.val) THEN Raise(self, "TypeError")
    ELSE Return(DictSet(self, DATA, DictVal(DictSet(d.val.items, name, value))),
                NoneVal)

\* Mutant: the delete empties the mapping.
C12_delete_clears(self, name) ==
    LET d == LoadData(self) IN
    IF d.exc # "none" THEN Raise(self, d.exc)
    ELSE IF ~IsDict(d.val) THEN Raise(self, "TypeError")
    ELSE IF ~DictHas(d.val.items, name) THEN Raise(self, "KeyError")
    ELSE Return(DictSet(self, DATA, DictVal(<<>>)), NoneVal)

\* del self._data[name] (in __delattr__ and __delitem__)
DeleteData(self, name) ==
    LET d == LoadData(self) IN
    IF d.exc # "none" THEN Raise(self, d.exc)
    ELSE IF ~IsDict(d.val) THEN Raise(self, "TypeError")
    ELSE IF ~DictHas(d.val.items, name) THEN Raise(self, "KeyError")
    ELSE Return(DictSet(self, DATA, DictVal(DictDel(d.val.items, name))),
                NoneVal)

(***************************************************************************)
(* FramerState.                                                            *)
(***************************************************************************)
\* self._data[name] (in __getattr__ and __getitem__)
LoadSubscr(self, name) ==
    LET d == LoadData(self) IN
    IF d.exc # "none" THEN Raise(self, d.exc)
    ELSE IF ~IsDict(d.val) THEN Raise(self, "TypeError")
    ELSE IF ~DictHas(d.val.items, name) THEN Raise(self, "KeyError")
    ELSE Return(self, DictGet(d.val.items, name))

__getattr__(self, name) ==
    LET r == LoadSubscr(self, name) IN
    IF r.exc = "KeyError" THEN Raise(self, "AttributeError") ELSE r

\* The expression obj.name: the instance __dict__, then the class, then
\* the __getattr__ hook.
LoadAttr(self, name) ==
    IF DictHas(self, name) THEN Return(self, DictGet(self, name))
    ELSE IF name \in ClassAttrs THEN Return(self, MethodVal)
    ELSE __getattr__(self, name)

\* Mutant: the subscript read goes through attribute lookup.
C7_getitem_as_getattr(self, name) == LoadAttr(self, name)

__getitem__(self, name) == LoadSubscr(self, name)

\* Mutant: every name is an ordinary attribute of the instance.
C10_setattr_plain(self, name, value) ==
    IF Len(name) = 0 THEN Raise(self, "IndexError")
    ELSE Return(DictSet(self, name, value), NoneVal)

\* Mutant: the reserved branch lacks its return and falls through to the
\* mapping.
C4_setattr_fallthrough(self, name, value) ==
    IF Len(name) = 0 THEN Raise(self, "IndexError")
    ELSE IF name[1] = "_"
         THEN StoreData(DictSet(self, name, value), name, value)
    ELSE StoreData(self, name, value)

__setattr__(self, name, value) ==
    IF Len(name) = 0 THEN Raise(self, "IndexError")
    ELSE IF name[1] = "_" THEN Return(DictSet(self, name, value), NoneVal)
    ELSE StoreData(self, name, value)

\* Mutant: the reserved marker is tested with startswith, which the empty
\* name passes.
C13_setitem_startswith(self, name, value) ==
    IF IsReserved(name) THEN Raise(self, "KeyError")
    ELSE StoreData(self, name, value)

\* Mutant: no check of the leading '_'.
C2_setitem_unguarded(self, name, value) ==
    IF Len(name) = 0 THEN Raise(self, "IndexError")
    ELSE StoreData(self, name, value)

__setitem__(self, name, value) ==
    IF Len(name) = 0 THEN Raise(self, "IndexError")
    ELSE IF name[1] = "_" THEN Raise(self, "KeyError")
    ELSE StoreData(self, name, value)

__delattr__(self, name) ==
    IF Len(name) = 0 THEN Raise(self, "IndexError")
    ELSE IF name[1] = "_"
         THEN IF DictHas(self, name)
              THEN Return(DictDel(self, name), NoneVal)
              ELSE Raise(self, "AttributeError")
    ELSE LET r == DeleteData(self, name) IN
         IF r.exc = "KeyError" THEN Raise(self, "AttributeError") ELSE r

\* Mutant: the subscript delete is handed to the attribute delete.
C3_delitem_as_delattr(self, name) == __delattr__(self, name)

__delitem__(self, name) ==
    IF Len(name) = 0 THEN Raise(self, "IndexError")
    ELSE IF name[1] = "_" THEN Raise(self, "KeyError")
    ELSE DeleteData(self, name)

\* The names iteration yields, as a value: one entry per name, in order.
KeysVal(ks) == [kind |-> "keys", n |-> 0,
                items |-> [i \in 1..Len(ks) |-> Entry(ks[i], NoneVal)]]

__iter__(self) ==
    LET d == LoadData(self) IN
    IF d.exc # "none" THEN Raise(self, d.exc)
    ELSE IF ~IsDict(d.val) THEN Raise(self, "AttributeError")
    ELSE Return(self, KeysVal(DictKeys(d.val.items)))

\* Mutant: the length of the instance __dict__, not of _data.
C5_len_of_instance(self) == Return(self, IntVal(Len(self)))

__len__(self) ==
    LET d == LoadData(self) IN
    IF d.exc # "none" THEN Raise(self, d.exc)
    ELSE IF ~IsDict(d.val) THEN Raise(self, "TypeError")
    ELSE Return(self, IntVal(Len(d.val.items)))

\* The two FramerState instances: state is instance 1, other is instance 2.
Instances == {1, 2}

\* Mutant: one dict, made once, is handed to every instance.
C11_shared_dict(i) == 1

\* The identity of the dict __init__ stores in _data: the display {} is
\* evaluated at each construction and makes a new dict each time.
InitDataId(i) == i

\* FramerState(): __init__ runs self._data = {} on the new, empty instance.
__init__ == __setattr__(<<>>, DATA, DictVal(<<>>)).self

(***************************************************************************)
(* Framer.                                                                 *)
(***************************************************************************)
\* Mutant: the framer keeps the state it was handed.
C8_initialize_state_keeps(self, st) ==
    [exc |-> "none", val |-> NoneVal,
     self |-> DictSet(self, <<"_", "s", "t", "a", "t", "e">>, DictVal(st)),
     state |-> st]

\* The default initialize_state: its body is pass.
initialize_state(self, st) == [exc |-> "none", val |-> NoneVal,
                               self |-> self, state |-> st]

(***************************************************************************)
(* History.                                                                *)
(***************************************************************************)
Call(op, name, r) == [op |-> op, name |-> name, exc |-> r.exc, val |-> r.val]

NoCall == [op |-> "none", name |-> <<>>, exc |-> "none", val |-> NoneVal]

WrittenSet(w, name, value) ==
    [m \in (DOMAIN w) \cup {name} |-> IF m = name THEN value ELSE w[m]]
WrittenDel(w, name) == [m \in (DOMAIN w) \ {name} |-> w[m]]

(***************************************************************************)
(* The container's operations, one action per call on the instance.  A     *)
(* read (get, iter, len) hands its outcome to the caller and changes no    *)
(* variable; a set or delete is recorded in last and in the history.       *)
(***************************************************************************)
Idle == UNCHANGED <<data, frame, pc, tmp, done, other, ref, handedOver>>

GetAttr(n) ==
    LET r == LoadAttr(state, n) IN
    /\ state' = r.self
    /\ UNCHANGED <<framer, last, written, dataAssigned>>
    /\ Idle

GetItem(n) ==
    LET r == __getitem__(state, n) IN
    /\ state' = r.self
    /\ UNCHANGED <<framer, last, written, dataAssigned>>
    /\ Idle

SetAttr(n, v) ==
    LET r == __setattr__(state, n, v) IN
    /\ state' = r.self
    /\ last' = Call("setattr", n, r)
    /\ written' = IF r.exc = "none" /\ ~IsReserved(n)
                  THEN WrittenSet(written, n, v) ELSE written
    /\ dataAssigned' = (dataAssigned \/ (r.exc = "none" /\ n = DATA))
    /\ UNCHANGED framer
    /\ Idle

SetItem(n, v) ==
    LET r == __setitem__(state, n, v) IN
    /\ state' = r.self
    /\ last' = Call("setitem", n, r)
    /\ written' = IF r.exc = "none" THEN WrittenSet(written, n, v) ELSE written
    /\ UNCHANGED <<framer, dataAssigned>>
    /\ Idle

DelAttr(n) ==
    LET r == __delattr__(state, n) IN
    /\ state' = r.self
    /\ last' = Call("delattr", n, r)
    /\ written' = IF r.exc = "none" /\ ~IsReserved(n)
                  THEN WrittenDel(written, n) ELSE written
    /\ UNCHANGED <<framer, dataAssigned>>
    /\ Idle

DelItem(n) ==
    LET r == __delitem__(state, n) IN
    /\ state' = r.self
    /\ last' = Call("delitem", n, r)
    /\ written' = IF r.exc = "none" THEN WrittenDel(written, n) ELSE written
    /\ UNCHANGED <<framer, dataAssigned>>
    /\ Idle

IterKeys ==
    LET r == __iter__(state) IN
    /\ state' = r.self
    /\ UNCHANGED <<framer, last, written, dataAssigned>>
    /\ Idle

LenOf ==
    LET r == __len__(state) IN
    /\ state' = r.self
    /\ UNCHANGED <<framer, last, written, dataAssigned>>
    /\ Idle

InitializeState ==
    LET r == initialize_state(framer, state) IN
    /\ state' = r.state
    /\ framer' = r.self
    /\ last' = Call("initialize_state", <<>>, r)
    /\ UNCHANGED <<written, dataAssigned>>
    /\ Idle

Init ==
    /\ state = __init__
    /\ framer = <<>>
    /\ last = NoCall
    /\ written = <<>>
    /\ dataAssigned = FALSE
    /\ data = <<>>
    /\ frame = <<>>
    /\ pc = [c \in Callers |-> "idle"]
    /\ tmp = [c \in Callers |-> 0]
    /\ done = [c \in Callers |-> 0]
    /\ other = __init__
    /\ ref = [i \in Instances |-> InitDataId(i)]
    /\ handedOver = FALSE

Next ==
    \/ \E n \in Names : GetAttr(n)
    \/ \E n \in Names : GetItem(n)
    \/ \E n \in Names, v \in Values : SetAttr(n, v)
    \/ \E n \in Names, v \in Values : SetItem(n, v)
    \/ \E n \in Names : DelAttr(n)
    \/ \E n \in Names : DelItem(n)
    \/ IterKeys
    \/ LenOf
    \/ InitializeState

Spec == Init /\ [][Next]_vars

(***************************************************************************)
(* What the mapping interface shows of an instance.                        *)
(***************************************************************************)
Observed(r) == [exc |-> r.exc, val |-> r.val]

\* The mapped names and values, len() and iteration of an instance.
MappingView(self) ==
    [data |-> Observed(LoadData(self)),
     len |-> Observed(__len__(self)),
     iter |-> Observed(__iter__(self))]

\* The names a fresh iteration yields (none when iteration fails).
IterNames(self) ==
    LET r == __iter__(self) IN
    IF r.exc = "none" THEN [i \in 1..Len(r.val.items) |-> r.val.items[i].key]
    ELSE <<>>

NoDuplicates(seq) == \A i, j \in 1..Len(seq) : seq[i] = seq[j] => i = j
Range(seq) == {seq[i] : i \in 1..Len(seq)}

\* The storage is the dict __init__ made: _data was neither assigned nor deleted.
StorageIntact == ~dataAssigned /\ DictHas(state, DATA)

MappingItems == IF DictHas(state, DATA) /\ IsDict(DictGet(state, DATA))
                THEN DictGet(state, DATA).items ELSE <<>>

(***************************************************************************)
(* C1: after a non-reserved name n (the names of the class's own mapping   *)
(* methods included) is set to v by either style, reading n returns v by   *)
(* both styles until n is set again or deleted.                            *)
(***************************************************************************)
C1_ReadAfterSet ==
    StorageIntact =>
        \A n \in DOMAIN written :
            /\ LoadAttr(state, n) = Return(state, written[n])
            /\ __getitem__(state, n) = Return(state, written[n])

(***************************************************************************)
(* C2: in every reachable state no name beginning with '_' is a key of     *)
(* the exposed mapping: none is yielded by iteration, counted by len or    *)
(* readable by subscript.                                                  *)
(***************************************************************************)
NoReservedKey ==
    /\ \A i \in 1..Len(IterNames(state)) : ~IsReserved(IterNames(state)[i])
    /\ __len__(state).exc = "none" =>
           __len__(state).val.n =
               Cardinality({i \in 1..Len(IterNames(state)) :
                               ~IsReserved(IterNames(state)[i])})
    /\ \A n \in ReservedNames : __getitem__(state, n).exc # "none"

C2_NoReservedKeyEver == NoReservedKey

\* C2 as amended: the same, in every state reached without an
\* attribute-style assignment to the field _data.
C2_NoReservedKeyUnlessDataAssigned == ~dataAssigned => NoReservedKey

C2_Witness ==
    /\ ~dataAssigned
    /\ DictHas(state, ATTR)
    /\ Len(MappingItems) > 0
    /\ last.op = "setitem" /\ last.name = ATTR

(***************************************************************************)
(* C3: subscript-style set and delete of a name beginning with '_' always  *)
(* raise KeyError, whether or not the name was set by attribute style,     *)
(* and leave the mapping and the private fields unchanged.                 *)
(***************************************************************************)
C3_SubscriptReservedRejected ==
    \A n \in ReservedNames :
        /\ \A v \in Values : __setitem__(state, n, v) = Raise(state, "KeyError")
        /\ __delitem__(state, n) = Raise(state, "KeyError")

C3_Witness ==
    /\ DictHas(state, ATTR)
    /\ last.op = "delitem" /\ last.name = ATTR /\ last.exc = "KeyError"

(***************************************************************************)
(* C4: attribute-style set and delete of a name beginning with '_' (the    *)
(* field _data included) leave the mapped names, their values, len and     *)
(* iteration as they were.                                                 *)
(***************************************************************************)
ReservedAttrBypasses(n) ==
    /\ \A v \in Values :
           MappingView(__setattr__(state, n, v).self) = MappingView(state)
    /\ MappingView(__delattr__(state, n).self) = MappingView(state)

C4_ReservedAttrBypassesAll == \A n \in ReservedNames : ReservedAttrBypasses(n)

\* C4 as amended: the same for every reserved name other than _data.
C4_ReservedAttrBypassesButData ==
    \A n \in ReservedNames \ {DATA} : ReservedAttrBypasses(n)

C4_Witness ==
    /\ last.op = "delattr" /\ last.name = ATTR /\ last.exc = "none"
    /\ Len(MappingItems) > 0

(***************************************************************************)
(* C5: a fresh FramerState has len 0 and empty iteration; after sets and   *)
(* deletes of non-reserved names len equals the number of names set and    *)
(* not since deleted, and iteration yields exactly those names, each once. *)
(***************************************************************************)
C5_LenAndIter ==
    /\ __len__(__init__) = Return(__init__, IntVal(0))
    /\ __iter__(__init__) = Return(__init__, KeysVal(<<>>))
    /\ StorageIntact =>
        /\ __len__(state) = Return(state, IntVal(Cardinality(DOMAIN written)))
        /\ __iter__(state).exc = "none"
        /\ Range(IterNames(state)) = DOMAIN written
        /\ NoDuplicates(IterNames(state))

C5_Witness ==
    /\ StorageIntact
    /\ last.op = "delattr" /\ last.exc = "none" /\ ~IsReserved(last.name)
    /\ Cardinality(DOMAIN written) = 1

(***************************************************************************)
(* C6: get or delete of a non-reserved name that is not currently set      *)
(* raises AttributeError (attribute style) or KeyError (subscript style)   *)
(* and changes nothing, in every reachable state.                          *)
(***************************************************************************)
C6_MissingIsNotFound ==
    \A n \in PublicNames \ DOMAIN written :
        /\ LoadAttr(state, n) = Raise(state, "AttributeError")
        /\ __getitem__(state, n) = Raise(state, "KeyError")
        /\ __delattr__(state, n) = Raise(state, "AttributeError")
        /\ __delitem__(state, n) = Raise(state, "KeyError")

(***************************************************************************)
(* C7: a subscript-style read of a name beginning with '_' fails in every  *)
(* reachable state, also after the name was set by attribute style and     *)
(* after any attribute-style write to _data.                               *)
(***************************************************************************)
SubscriptReadOfReservedFails ==
    \A n \in ReservedNames : __getitem__(state, n).exc # "none"

C7_ReservedNeverReadable == SubscriptReadOfReservedFails

\* C7 as amended: the same, in every state reached without an
\* attribute-style assignment to the field _data.
C7_ReservedNotReadableUnlessDataAssigned ==
    ~dataAssigned => SubscriptReadOfReservedFails

C7_Witness ==
    /\ ~dataAssigned
    /\ last.op = "setattr" /\ last.name = ATTR /\ last.exc = "none"
    /\ LoadAttr(state, ATTR).exc = "none"
    /\ __getitem__(state, ATTR).exc = "KeyError"

(***************************************************************************)
(* C8: the default initialize_state is a no-op: whatever the FramerState   *)
(* holds, it is the same after the call, and the framer keeps nothing.     *)
(***************************************************************************)
C8_InitializeStateNoop ==
    LET r == initialize_state(framer, state) IN
    /\ r.exc = "none"
    /\ r.state = state
    /\ r.self = framer
    /\ framer = <<>>

C8_Witness ==
    /\ last.op = "initialize_state"
    /\ Len(MappingItems) > 0
    /\ DictHas(state, ATTR)

(***************************************************************************)
(* Two callers sharing one FramerState, each running                       *)
(*     state.count = state.count + 1                                       *)
(* up to MaxIncr times after state.count = 0.  The statement is a read     *)
(* (__getattr__) followed by a write (__setattr__); nothing in the class   *)
(* holds a lock between the two, so the callers interleave at that point.  *)
(***************************************************************************)
CountIsSet == COUNT \in DOMAIN written

SetUp ==
    LET r == __setattr__(state, COUNT, IntVal(0)) IN
    /\ last.op = "none"
    /\ state' = r.self
    /\ last' = Call("setattr", COUNT, r)
    /\ written' = IF r.exc = "none"
                  THEN WrittenSet(written, COUNT, IntVal(0)) ELSE written
    /\ UNCHANGED <<framer, dataAssigned, data, frame, pc, tmp, done>>
    /\ UNCHANGED <<other, ref, handedOver>>

Read(c) ==
    LET r == LoadAttr(state, COUNT) IN
    /\ last.op # "none"
    /\ pc[c] = "idle"
    /\ done[c] < MaxIncr
    /\ state' = r.self
    /\ last' = Call("getattr", COUNT, r)
    /\ IF r.exc = "none" /\ r.val.kind = "int"
       THEN /\ tmp' = [tmp EXCEPT ![c] = r.val.n]
            /\ pc' = [pc EXCEPT ![c] = "write"]
       ELSE /\ pc' = [pc EXCEPT ![c] = "failed"]
            /\ UNCHANGED tmp
    /\ UNCHANGED <<framer, written, dataAssigned, data, frame, done>>
    /\ UNCHANGED <<other, ref, handedOver>>

Write(c) ==
    LET r == __setattr__(state, COUNT, IntVal(tmp[c] + 1)) IN
    /\ pc[c] = "write"
    /\ state' = r.self
    /\ last' = Call("setattr", COUNT, r)
    /\ written' = IF r.exc = "none"
                  THEN WrittenSet(written, COUNT, IntVal(tmp[c] + 1))
                  ELSE written
    /\ pc' = [pc EXCEPT ![c] = IF r.exc = "none" THEN "idle" ELSE "failed"]
    /\ done' = [done EXCEPT ![c] = IF r.exc = "none" THEN @ + 1 ELSE @]
    /\ UNCHANGED <<framer, dataAssigned, data, frame, tmp>>
    /\ UNCHANGED <<other, ref, handedOver>>

NextCallers ==
    \/ SetUp
    \/ \E c \in Callers : Read(c)
    \/ \E c \in Callers : Write(c)

SpecCallers == Init /\ [][NextCallers]_vars

\* state.count, when it reads as an int; -1 otherwise.
CountValue ==
    LET r == LoadAttr(state, COUNT) IN
    IF r.exc = "none" /\ r.val.kind = "int" THEN r.val.n ELSE -1

(***************************************************************************)
(* C10: a single caller that sets count to 0 and increments it k times     *)
(* ends with count = k and len(state) = 1; the increments of two callers   *)
(* are never over-counted, and (the witness) there is an interleaving      *)
(* after which count is less than the number of increments performed.      *)
(***************************************************************************)
C10_SingleCallerCounts ==
    CountIsSet =>
        /\ \A c \in Callers :
               (/\ pc[c] = "idle"
                /\ \A o \in Callers \ {c} : pc[o] = "idle" /\ done[o] = 0)
               => /\ LoadAttr(state, COUNT) = Return(state, IntVal(done[c]))
                  /\ __getitem__(state, COUNT) = Return(state, IntVal(done[c]))
                  /\ __len__(state) = Return(state, IntVal(1))
        /\ CountValue >= 0
        /\ CountValue <= done[1] + done[2]

C10_LostUpdate ==
    /\ \A c \in Callers : pc[c] = "idle" /\ done[c] > 0
    /\ CountValue >= 0
    /\ CountValue < done[1] + done[2]

(***************************************************************************)
(* Decoding.  Framer.to_frame is abstract in framer.py (its body is pass)  *)
(* and no concrete framer is part of these sources, so the decode side is  *)
(* modelled from the contract: a length-prefixed framer, whose frame is    *)
(* one length byte followed by that many payload bytes, and which notes    *)
(* the length it has read in the FramerState while the payload is short.   *)
(***************************************************************************)
Bytes == 0..MaxByte

HasFullFrame(buf) == Len(buf) >= 1 /\ Len(buf) >= 1 + buf[1]

\* Mutant: the length byte is taken out of the buffer as soon as it is read.
C9_to_frame_consumes_header(buf, st) ==
    IF Len(buf) = 0
    THEN [exc |-> "NoFrames", frame |-> <<>>, data |-> buf, state |-> st]
    ELSE IF Len(buf) < 1 + buf[1]
    THEN [exc |-> "NoFrames", frame |-> <<>>, data |-> Tail(buf),
          state |-> __setattr__(st, LENGTH, IntVal(buf[1])).self]
    ELSE [exc |-> "none", frame |-> SubSeq(buf, 2, 1 + buf[1]),
          data |-> SubSeq(buf, 2 + buf[1], Len(buf)),
          state |-> __setattr__(st, LENGTH, IntVal(0)).self]

to_frame(buf, st) ==
    IF Len(buf) = 0
    THEN [exc |-> "NoFrames", frame |-> <<>>, data |-> buf, state |-> st]
    ELSE IF Len(buf) < 1 + buf[1]
    THEN [exc |-> "NoFrames", frame |-> <<>>, data |-> buf,
          state |-> __setattr__(st, LENGTH, IntVal(buf[1])).self]
    ELSE [exc |-> "none", frame |-> SubSeq(buf, 2, 1 + buf[1]),
          data |-> SubSeq(buf, 2 + buf[1], Len(buf)),
          state |-> __setattr__(st, LENGTH, IntVal(0)).self]

\* The transport appends a byte it has read to the buffer.
Receive(b) ==
    /\ Len(data) < MaxBuf
    /\ data' = Append(data, b)
    /\ last' = [op |-> "receive", name |-> <<>>, exc |-> "none", val |-> NoneVal]
    /\ UNCHANGED <<state, framer, written, dataAssigned, frame, pc, tmp, done>>
    /\ UNCHANGED <<other, ref, handedOver>>

ToFrame ==
    LET r == to_frame(data, state) IN
    /\ data' = r.data
    /\ state' = r.state
    /\ frame' = IF r.exc = "none" THEN r.frame ELSE frame
    /\ last' = [op |-> "to_frame", name |-> <<>>, exc |-> r.exc, val |-> NoneVal]
    /\ written' = IF LoadAttr(r.state, LENGTH).exc = "none"
                  THEN WrittenSet(written, LENGTH, LoadAttr(r.state, LENGTH).val)
                  ELSE written
    /\ UNCHANGED <<framer, dataAssigned, pc, tmp, done>>
    /\ UNCHANGED <<other, ref, handedOver>>

NextFramer ==
    \/ \E b \in Bytes : Receive(b)
    \/ ToFrame

SpecFramer == Init /\ [][NextFramer]_vars

Inst(i) == IF i = 1 THEN state ELSE other
Peer(i) == IF i = 1 THEN 2 ELSE 1

TwoNames == {DATA, ATTR, NameA}
TwoValues == {IntVal(0), DictVal(<<>>)}

SameDict(i, j) == ref[i] # 0 /\ ref[i] = ref[j]

\* The identity of a dict made by a display in the caller's code.
FreshId == CHOOSE k \in 1..3 : k \notin {ref[1], ref[2]}

\* Whether the call binds or unbinds the field _data itself.
Rebinds(op, n) == n = DATA /\ op \in {"setattr", "delattr"}

\* The peer of instance i after a call on i with outcome r.
PeerAfter(i, op, n, r) ==
    IF SameDict(i, Peer(i)) /\ ~Rebinds(op, n) /\ DictHas(r.self, DATA)
    THEN DictSet(Inst(Peer(i)), DATA, DictGet(r.self, DATA))
    ELSE Inst(Peer(i))

\* The identity held by instance i after the call.
RefAfter(i, op, n, v, r) ==
    IF Rebinds(op, n) /\ r.exc = "none"
    THEN IF op = "setattr" /\ IsDict(v) THEN FreshId ELSE 0
    ELSE ref[i]

\* A call on instance i: its outcome r lands in i, and in the peer as far
\* as the two share a dict.
Apply(i, op, n, v, r) ==
    /\ state' = IF i = 1 THEN r.self ELSE PeerAfter(i, op, n, r)
    /\ other' = IF i = 2 THEN r.self ELSE PeerAfter(i, op, n, r)
    /\ ref' = [ref EXCEPT ![i] = RefAfter(i, op, n, v, r)]
    /\ UNCHANGED <<framer, written, dataAssigned, data, frame, pc, tmp, done>>

TwoGetAttr(i, n) ==
    /\ Apply(i, "getattr", n, NoneVal, LoadAttr(Inst(i), n))
    /\ UNCHANGED <<last, handedOver>>

TwoGetItem(i, n) ==
    /\ Apply(i, "getitem", n, NoneVal, __getitem__(Inst(i), n))
    /\ UNCHANGED <<last, handedOver>>

TwoSetAttr(i, n, v) ==
    LET r == __setattr__(Inst(i), n, v) IN
    /\ Apply(i, "setattr", n, v, r)
    /\ last' = Call("setattr", n, r)
    /\ UNCHANGED handedOver

TwoSetItem(i, n, v) ==
    LET r == __setitem__(Inst(i), n, v) IN
    /\ Apply(i, "setitem", n, v, r)
    /\ last' = Call("setitem", n, r)
    /\ UNCHANGED handedOver

TwoDelAttr(i, n) ==
    LET r == __delattr__(Inst(i), n) IN
    /\ Apply(i, "delattr", n, NoneVal, r)
    /\ last' = Call("delattr", n, r)
    /\ UNCHANGED handedOver

TwoDelItem(i, n) ==
    LET r == __delitem__(Inst(i), n) IN
    /\ Apply(i, "delitem", n, NoneVal, r)
    /\ last' = Call("delitem", n, r)
    /\ UNCHANGED handedOver

\* i._data = peer._data: a get on the peer, then a set on i of the dict
\* it returned.
HandOver(i) ==
    LET g == LoadAttr(Inst(Peer(i)), DATA)
        r == __setattr__(Inst(i), DATA, g.val)
    IN
    /\ g.exc = "none"
    /\ state' = IF i = 1 THEN r.self ELSE state
    /\ other' = IF i = 2 THEN r.self ELSE other
    /\ ref' = [ref EXCEPT ![i] = ref[Peer(i)]]
    /\ last' = Call("setattr", DATA, r)
    /\ handedOver' = TRUE
    /\ UNCHANGED <<framer, written, dataAssigned, data, frame, pc, tmp, done>>

NextTwo ==
    \/ \E i \in Instances, n \in TwoNames : TwoGetAttr(i, n)
    \/ \E i \in Instances, n \in TwoNames : TwoGetItem(i, n)
    \/ \E i \in Instances, n \in TwoNames, v \in TwoValues : TwoSetAttr(i, n, v)
    \/ \E i \in Instances, n \in TwoNames, v \in TwoValues : TwoSetItem(i, n, v)
    \/ \E i \in Instances, n \in TwoNames : TwoDelAttr(i, n)
    \/ \E i \in Instances, n \in TwoNames : TwoDelItem(i, n)
    \/ \E i \in Instances : HandOver(i)

SpecTwo == Init /\ [][NextTwo]_vars

(***************************************************************************)
(* C11: two FramerState instances are isolated: whatever set, get or       *)
(* delete (either style, reserved or non-reserved name) is applied to one  *)
(* instance, the other's mapping and private fields stay as they were.     *)
(***************************************************************************)
LeavesPeerAlone(i) ==
    \A n \in TwoNames :
        /\ PeerAfter(i, "getattr", n, LoadAttr(Inst(i), n)) = Inst(Peer(i))
        /\ PeerAfter(i, "getitem", n, __getitem__(Inst(i), n)) = Inst(Peer(i))
        /\ PeerAfter(i, "delattr", n, __delattr__(Inst(i), n)) = Inst(Peer(i))
        /\ PeerAfter(i, "delitem", n, __delitem__(Inst(i), n)) = Inst(Peer(i))
        /\ \A v \in TwoValues :
            /\ PeerAfter(i, "setattr", n, __setattr__(Inst(i), n, v))
                   = Inst(Peer(i))
            /\ PeerAfter(i, "setitem", n, __setitem__(Inst(i), n, v))
                   = Inst(Peer(i))

C11_IsolatedAlways == \A i \in Instances : LeavesPeerAlone(i)

\* C11 as amended: the same, as long as the dict one instance holds in
\* _data was never stored into the other instance.
C11_IsolatedUnlessHandedOver ==
    ~handedOver => \A i \in Instances : LeavesPeerAlone(i)

C11_Witness ==
    /\ ~handedOver
    /\ last.op = "setitem" /\ last.exc = "none"
    /\ DictHas(state, DATA) /\ IsDict(DictGet(state, DATA))
    /\ DictHas(other, DATA) /\ IsDict(DictGet(other, DATA))
    /\ Len(DictGet(state, DATA).items) > 0
    /\ Len(DictGet(other, DATA).items) > 0
    /\ DictGet(state, DATA) # DictGet(other, DATA)
    /\ DictHas(state, ATTR) /\ ~DictHas(other, ATTR)

(***************************************************************************)
(* C12: a successful set or delete of a non-reserved name n, by either     *)
(* style, changes only n: every other name is set or not, and holds the    *)
(* value, as before, and the private fields other than the mapping are     *)
(* unchanged.                                                              *)
(***************************************************************************)
\* The private fields other than the mapping.
PrivateFields(self) == DictDel(self, DATA)

\* What both styles read of name m.
ReadOf(self, m) ==
    [attr |-> Observed(LoadAttr(self, m)), item |-> Observed(__getitem__(self, m))]

ChangesOnly(r, n) ==
    r.exc = "none" =>
        /\ \A m \in Names \ {n, DATA} : ReadOf(r.self, m) = ReadOf(state, m)
        /\ PrivateFields(r.self) = PrivateFields(state)

C12_ChangesOnlyItsName ==
    \A n \in PublicNames :
        /\ \A v \in Values :
            /\ ChangesOnly(__setattr__(state, n, v), n)
            /\ ChangesOnly(__setitem__(state, n, v), n)
        /\ ChangesOnly(__delattr__(state, n), n)
        /\ ChangesOnly(__delitem__(state, n), n)

C12_Witness ==
    /\ last.op = "delattr" /\ last.name = NameA /\ last.exc = "none"
    /\ DictHas(MappingItems, KEYS)
    /\ DictHas(state, ATTR)

(***************************************************************************)
(* C13: set and delete of the empty name, by either style, raise           *)
(* IndexError (not KeyError, not AttributeError) before any storage is     *)
(* touched, so the instance is unchanged, and the empty name is never a    *)
(* key of the mapping.                                                     *)
(***************************************************************************)
EmptyNameRejected ==
    /\ \A v \in Values :
        /\ __setattr__(state, EmptyName, v) = Raise(state, "IndexError")
        /\ __setitem__(state, EmptyName, v) = Raise(state, "IndexError")
    /\ __delattr__(state, EmptyName) = Raise(state, "IndexError")
    /\ __delitem__(state, EmptyName) = Raise(state, "IndexError")

EmptyNameNotAKey ==
    /\ ~DictHas(MappingItems, EmptyName)
    /\ EmptyName \notin Range(IterNames(state))

C13_EmptyNameNeverAKey == EmptyNameRejected /\ EmptyNameNotAKey

\* C13 as amended: the rejection in every reachable state; the empty name
\* is no key in every state reached without an attribute-style assignment
\* to the field _data.
C13_EmptyNameRejectedByMutators ==
    /\ EmptyNameRejected
    /\ ~dataAssigned => EmptyNameNotAKey

C13_Witness ==
    /\ ~dataAssigned
    /\ last.op = "setitem" /\ last.name = EmptyName /\ last.exc = "IndexError"
    /\ Len(MappingItems) > 0

====
